---- MODULE Spec2Model ----
(***************************************************************************)
(* rpmtools: the four subcommands of src/src/lib.rs as one state machine.  *)
(* A run starts in main(), dispatches to one subcommand and follows its    *)
(* body statement by statement.  Strings are sequences of one-character    *)
(* strings, bytes are numbers, the file tree is an arena of nodes.         *)
(***************************************************************************)
EXTENDS Integers, Sequences, FiniteSets, TLC

VARIABLES pc, result, offsets, input_bytes, dir_created, disk, written,
          sliced, extracted, paths, tree, cursor, stdout

vars == <<pc, result, offsets, input_bytes, dir_created, disk, written,
          sliced, extracted, paths, tree, cursor, stdout>>

\* ---------------------------------------------------------------- bounds
MaxBufLen == 3
MaxOffset == 4
MaxPaths == 3
MaxChars == 5

\* ------------------------------------------------------- input alphabets
ByteVals == {0, 255}
\* the characters of a file path: the separator, the dot and a letter
Chars == {"/", ".", "a"}
\* their byte values
CharCode == [c \in Chars |-> CASE c = "." -> 46 [] c = "/" -> 47 [] c = "a" -> 97]

SeqsUpTo(S, n) == UNION {[1..k -> S] : k \in 0..n}
Buffers == SeqsUpTo(ByteVals, MaxBufLen)
IdentityFields == {"name", "version", "release", "arch"}
SectionNames == <<"lead", "sig_header", "header", "payload">>
NoOffsets == [lead |-> 0, signature_header |-> 0, header |-> 0, payload |-> 0]
OffsetTuples == [lead : 0..MaxOffset, signature_header : 0..MaxOffset,
                 header : 0..MaxOffset, payload : 0..MaxOffset]

RECURSIVE TotalChars(_)
TotalChars(ps) == IF ps = <<>> THEN 0 ELSE Len(Head(ps)) + TotalChars(Tail(ps))

\* ------------------------------------------------------ returning a value
Return(r) == /\ result' = r
             /\ UNCHANGED pc

Init == /\ pc = "main"
        /\ result = "running"
        /\ offsets = NoOffsets
        /\ input_bytes = <<>>
        /\ dir_created = FALSE
        /\ disk = <<>>
        /\ written = <<>>
        /\ sliced = <<>>
        /\ extracted = FALSE
        /\ paths = <<>>
        /\ tree = << <<>> >>
        /\ cursor = 1
        /\ stdout = <<>>

\* ------------------------------------------------------------- main.rs
SubcommandEntry == [split |-> "split_open", extract |-> "extract_open",
                    list |-> "list_open", tree |-> "tree_open"]

Main == /\ pc = "main"
        /\ result = "running"
        /\ \E sub \in DOMAIN SubcommandEntry : pc' = SubcommandEntry[sub]
        /\ UNCHANGED <<result, offsets, input_bytes, dir_created, disk, written,
                       sliced, extracted, paths, tree, cursor, stdout>>

\* ---------------------------------------------- split_package_into_components
\* &v[a..b] panics when a > b or b > v.len(); otherwise it is v[a], .., v[b-1]
SlicePanics(v, a, b) == a > b \/ b > Len(v)
Slice(v, a, b) == SubSeq(v, a + 1, b)

\* SectionRange with the payload slice started at the header offset
SectionRange_PayloadFromHeader(name, offs, len) ==
    CASE name = "lead" -> <<offs.lead, offs.signature_header>>
      [] name = "sig_header" -> <<offs.signature_header, offs.header>>
      [] name = "header" -> <<offs.header, offs.payload>>
      [] name = "payload" -> <<offs.header, len>>

\* the index range each section is sliced with
SectionRange(name, offs, len) ==
    CASE name = "lead" -> <<offs.lead, offs.signature_header>>
      [] name = "sig_header" -> <<offs.signature_header, offs.header>>
      [] name = "header" -> <<offs.header, offs.payload>>
      [] name = "payload" -> <<offs.payload, len>>

NextSection(name) ==
    CASE name = "lead" -> "write_sig_header"
      [] name = "sig_header" -> "write_header"
      [] name = "header" -> "write_payload"
      [] name = "payload" -> "split_done"

\* PackageMetadata::open(pkg_path)? ; get_package_segment_offsets()
SplitOpen ==
    /\ pc = "split_open"
    /\ result = "running"
    /\ \/ /\ Return("ProviderError")
          /\ UNCHANGED offsets
       \/ /\ \E offs \in OffsetTuples : offsets' = offs
          /\ pc' = "split_nevra"
          /\ UNCHANGED result
    /\ UNCHANGED <<input_bytes, dir_created, disk, written, sliced, extracted,
                   paths, tree, cursor, stdout>>

\* SplitNevra with the destination directory created before the identity
\* fields are read
SplitNevra_MkdirFirst ==
    /\ pc = "split_nevra"
    /\ result = "running"
    /\ dir_created' = TRUE
    /\ \E missing \in SUBSET IdentityFields :
          IF missing # {}
            THEN Return("ProviderError")
            ELSE pc' = "split_mkdir" /\ UNCHANGED result
    /\ UNCHANGED <<offsets, input_bytes, disk, written, sliced,
                   extracted, paths, tree, cursor, stdout>>

\* get_name()?, get_version()?, get_release()?, get_arch()?
SplitNevra ==
    /\ pc = "split_nevra"
    /\ result = "running"
    /\ \E missing \in SUBSET IdentityFields :
          IF missing # {}
            THEN Return("ProviderError")
            ELSE pc' = "split_mkdir" /\ UNCHANGED result
    /\ UNCHANGED <<offsets, input_bytes, dir_created, disk, written, sliced,
                   extracted, paths, tree, cursor, stdout>>

\* fs::create_dir_all(&dest_path)?
SplitMkdir ==
    /\ pc = "split_mkdir"
    /\ result = "running"
    /\ \/ /\ Return("IOError")
          /\ UNCHANGED dir_created
       \/ /\ dir_created' = TRUE
          /\ pc' = "split_read"
          /\ UNCHANGED result
    /\ UNCHANGED <<offsets, input_bytes, disk, written, sliced, extracted,
                   paths, tree, cursor, stdout>>

\* fs::read(pkg_path)?
SplitRead ==
    /\ pc = "split_read"
    /\ result = "running"
    /\ \/ /\ Return("IOError")
          /\ UNCHANGED input_bytes
       \/ /\ \E buf \in Buffers : input_bytes' = buf
          /\ pc' = "write_lead"
          /\ UNCHANGED result
    /\ UNCHANGED <<offsets, dir_created, disk, written, sliced, extracted,
                   paths, tree, cursor, stdout>>

PutFile(d, name, data) ==
    [n \in DOMAIN d \cup {name} |-> IF n = name THEN data ELSE d[n]]

\* write_section with the result of fs::write dropped instead of returned
write_section_ErrorDropped(name) ==
    LET r == SectionRange(name, offsets, Len(input_bytes)) IN
    /\ result = "running"
    /\ IF SlicePanics(input_bytes, r[1], r[2])
         THEN /\ Return("Panic")
              /\ UNCHANGED <<disk, written, sliced>>
         ELSE /\ sliced' = Append(sliced, r)
              /\ \/ /\ \/ UNCHANGED disk
                       \/ disk' = PutFile(disk, name, <<>>)
                    /\ UNCHANGED written
                 \/ /\ disk' = PutFile(disk, name, Slice(input_bytes, r[1], r[2]))
                    /\ written' = Append(written, name)
              /\ pc' = NextSection(name)
              /\ result' = IF pc' = "split_done" THEN "Ok" ELSE result
    /\ UNCHANGED <<offsets, input_bytes, dir_created, extracted, paths, tree,
                   cursor, stdout>>

\* one write_section(&dest_path, name, &input_bytes[range])? statement:
\* the slice is taken first (and may panic), then fs::write runs
write_section(name) ==
    LET r == SectionRange(name, offsets, Len(input_bytes)) IN
    /\ result = "running"
    /\ IF SlicePanics(input_bytes, r[1], r[2])
         THEN /\ Return("Panic")
              /\ UNCHANGED <<disk, written, sliced>>
         ELSE /\ sliced' = Append(sliced, r)
              /\ \/ /\ Return("IOError")
                    /\ \/ UNCHANGED disk
                       \/ disk' = PutFile(disk, name, <<>>)
                    /\ UNCHANGED written
                 \/ /\ disk' = PutFile(disk, name, Slice(input_bytes, r[1], r[2]))
                    /\ written' = Append(written, name)
                    /\ pc' = NextSection(name)
                    /\ result' = IF pc' = "split_done" THEN "Ok" ELSE result
    /\ UNCHANGED <<offsets, input_bytes, dir_created, extracted, paths, tree,
                   cursor, stdout>>

WriteLead == pc = "write_lead" /\ write_section("lead")
WriteSigHeader == pc = "write_sig_header" /\ write_section("sig_header")
WriteHeader == pc = "write_header" /\ write_section("header")
WritePayload == pc = "write_payload" /\ write_section("payload")

\* ---------------------------------------------------- extract_package_payload
\* rpm::Package::open(pkg_path)?
ExtractOpen ==
    /\ pc = "extract_open"
    /\ result = "running"
    /\ \/ Return("ProviderError")
       \/ pc' = "extract_nevra" /\ UNCHANGED result
    /\ UNCHANGED <<offsets, input_bytes, dir_created, disk, written, sliced,
                   extracted, paths, tree, cursor, stdout>>

ExtractNevra ==
    /\ pc = "extract_nevra"
    /\ result = "running"
    /\ \E missing \in SUBSET IdentityFields :
          IF missing # {}
            THEN Return("ProviderError")
            ELSE pc' = "extract_run" /\ UNCHANGED result
    /\ UNCHANGED <<offsets, input_bytes, dir_created, disk, written, sliced,
                   extracted, paths, tree, cursor, stdout>>

\* package.extract(&dest_path)? : a failing extraction may have begun
ExtractRun ==
    /\ pc = "extract_run"
    /\ result = "running"
    /\ \/ /\ Return("ProviderError")
          /\ extracted' \in BOOLEAN
       \/ /\ extracted' = TRUE
          /\ pc' = "extract_files"
          /\ UNCHANGED result
    /\ UNCHANGED <<offsets, input_bytes, dir_created, disk, written, sliced,
                   paths, tree, cursor, stdout>>

\* for f in package.files()? { let f = f?; println!(..) } : one record a step
ExtractFiles ==
    /\ pc = "extract_files"
    /\ result = "running"
    /\ \/ /\ Return("ProviderError")
          /\ UNCHANGED stdout
       \/ /\ pc' = "extract_done"
          /\ result' = "Ok"
          /\ UNCHANGED stdout
       \/ /\ Len(stdout) < MaxPaths
          /\ \E p \in SeqsUpTo(Chars, MaxChars - TotalChars(stdout)) :
                stdout' = Append(stdout, p)
          /\ UNCHANGED <<pc, result>>
    /\ UNCHANGED <<offsets, input_bytes, dir_created, disk, written, sliced,
                   extracted, paths, tree, cursor>>

\* collect_paths with every record printed as soon as it is pulled
collect_paths_PrintEach(after) ==
    /\ result = "running"
    /\ \/ /\ Return("ProviderError")
          /\ UNCHANGED <<paths, stdout>>
       \/ /\ pc' = after
          /\ UNCHANGED <<result, paths, stdout>>
       \/ /\ Len(paths) < MaxPaths
          /\ \E p \in SeqsUpTo(Chars, MaxChars - TotalChars(paths)) :
                /\ paths' = Append(paths, p)
                /\ stdout' = Append(stdout, p)
          /\ UNCHANGED <<pc, result>>
    /\ UNCHANGED <<offsets, input_bytes, dir_created, disk, written, sliced,
                   extracted, tree, cursor>>

\* --------------------------------------------------- files() and collect
\* package.files()?.map(..).collect::<Result<_, _>>()? : the iterator is
\* pulled one record at a time; the first Err record ends the function
collect_paths(after) ==
    /\ result = "running"
    /\ \/ /\ Return("ProviderError")
          /\ UNCHANGED paths
       \/ /\ pc' = after
          /\ UNCHANGED <<result, paths>>
       \/ /\ Len(paths) < MaxPaths
          /\ \E p \in SeqsUpTo(Chars, MaxChars - TotalChars(paths)) :
                paths' = Append(paths, p)
          /\ UNCHANGED <<pc, result>>
    /\ UNCHANGED <<offsets, input_bytes, dir_created, disk, written, sliced,
                   extracted, tree, cursor, stdout>>

PackageOpen(after) ==
    /\ result = "running"
    /\ \/ Return("ProviderError")
       \/ pc' = after /\ UNCHANGED result
    /\ UNCHANGED <<offsets, input_bytes, dir_created, disk, written, sliced,
                   extracted, paths, tree, cursor, stdout>>

\* ---------------------------------------------------- print_package_file_list
ListOpen == pc = "list_open" /\ PackageOpen("list_collect")
ListCollect == pc = "list_collect" /\ collect_paths("list_print")

\* path.display() of a path that is valid text is the path itself
Display(path) == path

ListLines(ps) == [i \in 1..Len(ps) |-> Display(ps[i])]

ListPrint ==
    /\ pc = "list_print"
    /\ result = "running"
    /\ stdout' = stdout \o ListLines(paths)
    /\ pc' = "list_done"
    /\ result' = "Ok"
    /\ UNCHANGED <<offsets, input_bytes, dir_created, disk, written, sliced,
                   extracted, paths, tree, cursor>>

\* ------------------------------------------------------------ Path::components
\* the pieces of a path between its separators
RECURSIVE Segments(_)
Segments(s) ==
    IF \A i \in 1..Len(s) : s[i] # "/"
      THEN <<s>>
      ELSE LET i == CHOOSE j \in 1..Len(s) :
                       s[j] = "/" /\ \A k \in 1..(j - 1) : s[k] # "/"
           IN <<SubSeq(s, 1, i - 1)>> \o Segments(SubSeq(s, i + 1, Len(s)))

\* RootDir for a leading separator, CurDir for a leading "." of a relative
\* path, every other "." and every empty piece skipped; as_os_str of each
Components(s) ==
    LET has_root == Len(s) > 0 /\ s[1] = "/"
        segs == Segments(s)
        keep(i) == /\ segs[i] # <<>>
                   /\ segs[i] # <<".">> \/ (i = 1 /\ ~has_root)
        RECURSIVE Kept(_)
        Kept(i) == IF i > Len(segs) THEN <<>>
                   ELSE (IF keep(i) THEN <<segs[i]>> ELSE <<>>) \o Kept(i + 1)
    IN (IF has_root THEN << <<"/">> >> ELSE <<>>) \o Kept(1)

\* ------------------------------------------------------------------ TreeNode
\* the tree is an arena: tree[n] is the children map of node n (a function
\* from component name to node), node 1 is the root
RootNode == 1
EmptyTree == << <<>> >>

\* Ord of OsString: bytewise lexicographic
LexLess(a, b) ==
    \E i \in 1..(Len(b)) :
        /\ \A j \in 1..(i - 1) : j <= Len(a) /\ a[j] = b[j]
        /\ i > Len(a) \/ (i <= Len(a) /\ CharCode[a[i]] < CharCode[b[i]])

\* or_default as an unconditional insert of a default node
or_default_AlwaysInsert(t, node, name) ==
    Append([t EXCEPT ![node] = PutFile(t[node], name, Len(t) + 1)], <<>>)

\* current_level.entry(name).or_default()
or_default(t, node, name) ==
    IF name \in DOMAIN t[node]
      THEN t
      ELSE Append([t EXCEPT ![node] = PutFile(t[node], name, Len(t) + 1)], <<>>)

\* insert_components with current_level never moved off its start
RECURSIVE insert_components_NoDescend(_, _, _)
insert_components_NoDescend(t, node, comps) ==
    IF comps = <<>> THEN t
    ELSE insert_components_NoDescend(or_default(t, node, Head(comps)), node,
                                     Tail(comps))

\* the inner loop of tree_display: descend from node along comps
RECURSIVE insert_components(_, _, _)
insert_components(t, node, comps) ==
    IF comps = <<>> THEN t
    ELSE LET t2 == or_default(t, node, Head(comps))
         IN insert_components(t2, t2[node][Head(comps)], Tail(comps))

insert_path(t, path) == insert_components(t, RootNode, Components(path))

\* BTreeMap::iter(): the keys in ascending order
RECURSIVE SortedKeys(_)
SortedKeys(S) ==
    IF S = {} THEN <<>>
    ELSE LET m == CHOOSE x \in S : \A y \in S : y = x \/ LexLess(x, y)
         IN <<m>> \o SortedKeys(S \ {m})

\* iter of a map that keeps its keys in insertion order
RECURSIVE InsertionOrder(_, _)
InsertionOrder(children, S) ==
    IF S = {} THEN <<>>
    ELSE LET m == CHOOSE x \in S : \A y \in S : children[x] <= children[y]
         IN <<m>> \o InsertionOrder(children, S \ {m})

iter_InsertionOrder(children) == InsertionOrder(children, DOMAIN children)

iter(children) == SortedKeys(DOMAIN children)

\* the box-drawing characters U+2514, U+251C, U+2500 and U+2502, each one
\* character of a line, written here with an ASCII stand-in
ELBOW == "L"
TEE == "T"
DASH == "-"
BAR == "|"

connector(is_last) == IF is_last THEN <<ELBOW, DASH, DASH, " ">>
                                 ELSE <<TEE, DASH, DASH, " ">>
\* child_prefix with the bar drawn below a last child as well
child_prefix_AlwaysBar(is_last) == <<BAR, " ", " ", " ">>

child_prefix(is_last) == IF is_last THEN <<" ", " ", " ", " ">>
                                    ELSE <<BAR, " ", " ", " ">>

\* to_string_lossy of a name that is valid text is the name itself
to_string_lossy(name) == name

\* the recursion guard asking for more than one child
recurses_MoreThanOne(t, node) == Cardinality(DOMAIN t[node]) > 1

recurses(t, node) == DOMAIN t[node] # {}

\* print_tree_recursive: the lines printed for the children of node, the
\* while loop unrolled from the i-th entry of the iterator
RECURSIVE print_tree_recursive(_, _, _, _)
print_tree_recursive(t, node, prefix, i) ==
    LET keys == iter(t[node]) IN
    IF i > Len(keys) THEN <<>>
    ELSE LET name == keys[i]
             is_last == (i = Len(keys))
             line == prefix \o connector(is_last) \o to_string_lossy(name)
             new_prefix == prefix \o child_prefix(is_last)
             below == IF recurses(t, t[node][name])
                        THEN print_tree_recursive(t, t[node][name], new_prefix, 1)
                        ELSE <<>>
         IN <<line>> \o below \o print_tree_recursive(t, node, prefix, i + 1)

RootMarker == <<".">>

\* ---------------------------------------------------- print_package_file_tree
TreeOpen == pc = "tree_open" /\ PackageOpen("tree_collect")
TreeCollect == pc = "tree_collect" /\ collect_paths("tree_display")

\* tree_display: if paths.is_empty() { println!("."); return; }
TreeDisplay ==
    /\ pc = "tree_display"
    /\ result = "running"
    /\ IF paths = <<>>
         THEN /\ stdout' = Append(stdout, RootMarker)
              /\ pc' = "tree_done"
              /\ result' = "Ok"
              /\ UNCHANGED <<tree, cursor>>
         ELSE /\ tree' = EmptyTree
              /\ cursor' = 1
              /\ pc' = "tree_build"
              /\ UNCHANGED <<result, stdout>>
    /\ UNCHANGED <<offsets, input_bytes, dir_created, disk, written, sliced,
                   extracted, paths>>

\* for path in paths { .. } : one path an iteration
TreeInsert ==
    /\ pc = "tree_build"
    /\ result = "running"
    /\ cursor <= Len(paths)
    /\ tree' = insert_path(tree, paths[cursor])
    /\ cursor' = cursor + 1
    /\ UNCHANGED <<pc, result, offsets, input_bytes, dir_created, disk, written,
                   sliced, extracted, paths, stdout>>

\* println!("."); print_tree_recursive(&tree, "");
render(t) == <<RootMarker>> \o print_tree_recursive(t, RootNode, <<>>, 1)

TreeRender ==
    /\ pc = "tree_build"
    /\ result = "running"
    /\ cursor > Len(paths)
    /\ stdout' = stdout \o render(tree)
    /\ pc' = "tree_done"
    /\ result' = "Ok"
    /\ UNCHANGED <<offsets, input_bytes, dir_created, disk, written, sliced,
                   extracted, paths, tree, cursor>>

Next == \/ Main
        \/ SplitOpen \/ SplitNevra \/ SplitMkdir \/ SplitRead
        \/ WriteLead \/ WriteSigHeader \/ WriteHeader \/ WritePayload
        \/ ExtractOpen \/ ExtractNevra \/ ExtractRun \/ ExtractFiles
        \/ ListOpen \/ ListCollect \/ ListPrint
        \/ TreeOpen \/ TreeCollect \/ TreeDisplay \/ TreeInsert \/ TreeRender

Spec == Init /\ [][Next]_vars

\* =================================================================== split
ValidOffsets(offs, len) ==
    /\ offs.lead <= offs.signature_header
    /\ offs.signature_header <= offs.header
    /\ offs.header <= offs.payload
    /\ offs.payload <= len

AllWritten == written = SectionNames /\ pc = "split_done" /\ result = "Ok"

Concatenation == disk["lead"] \o disk["sig_header"] \o disk["header"]
                   \o disk["payload"]

RangeIndices(r) == (r[1] + 1)..r[2]

SlicesDisjoint ==
    \A i, j \in 1..Len(sliced) :
        i # j => RangeIndices(sliced[i]) \cap RangeIndices(sliced[j]) = {}

\* C1 as stated: after a successful split with valid offsets (lead > 0
\* included) the four files concatenated are the whole buffer and the four
\* slices are pairwise disjoint
C1_RoundTripWholeBuffer ==
    (AllWritten /\ ValidOffsets(offsets, Len(input_bytes)))
        => /\ Concatenation = input_bytes
           /\ SlicesDisjoint

\* C1 amended: after a successful split with valid offsets the four files
\* concatenated are the buffer from offset lead to its end, which is the
\* whole buffer when lead = 0, and the four slices are pairwise disjoint
C1_RoundTripFromLead ==
    (AllWritten /\ ValidOffsets(offsets, Len(input_bytes)))
        => /\ Concatenation = Slice(input_bytes, offsets.lead, Len(input_bytes))
           /\ offsets.lead = 0 => Concatenation = input_bytes
           /\ Len(sliced) = 4
           /\ SlicesDisjoint

C1_Witness ==
    /\ AllWritten
    /\ ValidOffsets(offsets, Len(input_bytes))
    /\ offsets.lead > 0
    /\ offsets.lead < offsets.header
    /\ offsets.payload < Len(input_bytes)
    /\ input_bytes[1] # input_bytes[2]

WritePcs == {"write_lead", "write_sig_header", "write_header", "write_payload"}

\* C2: once the buffer is read, offsets that violate lead <= signature_header
\* <= header <= payload <= length end the split in a FormatError, with no
\* slice taken and no section file written
C2_InvalidOffsetsFormatError ==
    (pc \in WritePcs \cup {"split_done"} /\ result # "running"
       /\ ~ValidOffsets(offsets, Len(input_bytes)))
        => /\ result = "FormatError"
           /\ sliced = <<>>
           /\ DOMAIN disk = {}

SectionIndex(p) ==
    CASE p = "write_lead" -> 1 [] p = "write_sig_header" -> 2
      [] p = "write_header" -> 3 [] p = "write_payload" -> 4

\* C3: sections are written in the order lead, sig_header, header, payload;
\* when the k-th write fails the split returns an error, the k-1 sections
\* before it are on disk with their slices, none after it exists, and Ok
\* is returned only after all four writes
C3_WriteOrder ==
    /\ Len(written) <= 4
    /\ \A i \in 1..Len(written) : written[i] = SectionNames[i]
    /\ (pc = "split_done" \/ (result = "Ok" /\ dir_created))
          => (result = "Ok" /\ written = SectionNames)
    /\ (pc \in WritePcs /\ result = "IOError")
          => LET k == SectionIndex(pc) IN
             /\ Len(written) = k - 1
             /\ \A j \in 1..(k - 1) :
                   /\ SectionNames[j] \in DOMAIN disk
                   /\ disk[SectionNames[j]] =
                        Slice(input_bytes, sliced[j][1], sliced[j][2])
             /\ \A j \in (k + 1)..4 : SectionNames[j] \notin DOMAIN disk

C3_Witness ==
    /\ pc = "write_header"
    /\ result = "IOError"
    /\ written = <<"lead", "sig_header">>
    /\ Len(disk["lead"]) > 0
    /\ Len(disk["sig_header"]) > 0

\* C4: when opening the package fails, or an identity field is missing, split
\* and extract return the error with no directory created, no package bytes
\* read, no file written and nothing extracted or printed
C4_ProviderFailureFirst ==
    (result = "ProviderError"
       /\ pc \in {"split_open", "split_nevra", "extract_open", "extract_nevra"})
        => /\ ~dir_created
           /\ input_bytes = <<>>
           /\ DOMAIN disk = {}
           /\ written = <<>>
           /\ sliced = <<>>
           /\ ~extracted
           /\ stdout = <<>>

C4_Witness ==
    /\ result = "ProviderError"
    /\ pc = "split_nevra"
    /\ offsets.payload > 0

\* ==================================================================== tree
RECURSIVE InsertAll(_, _)
InsertAll(t, ps) == IF ps = <<>> THEN t
                    ELSE InsertAll(insert_path(t, Head(ps)), Tail(ps))

Inserted == SubSeq(paths, 1, cursor - 1)
Built == pc = "tree_build" /\ cursor > Len(paths)
TreePcs == {"tree_build", "tree_done"}

\* C5: inserting the whole collection a second time, or any path already
\* inserted, leaves the tree as it is, and building from the collection
\* twice over gives the tree built from it once
C5_TreeIdempotent ==
    /\ pc = "tree_build"
          => \A i \in 1..(cursor - 1) : insert_path(tree, paths[i]) = tree
    /\ Built => /\ InsertAll(tree, paths) = tree
                /\ InsertAll(EmptyTree, paths \o paths) = tree

C5_Witness ==
    /\ Built
    /\ Len(paths) >= 2
    /\ Len(tree) >= 4
    /\ \E n \in 1..Len(tree) : Cardinality(DOMAIN tree[n]) >= 2

\* the key paths of the nodes reachable from node
RECURSIVE PathsFrom(_, _)
PathsFrom(t, node) ==
    {<<>>} \cup UNION {{<<k>> \o p : p \in PathsFrom(t, t[node][k])} :
                          k \in DOMAIN t[node]}

\* the non-empty component prefixes of a path collection
ComponentPrefixes(ps) ==
    UNION {{SubSeq(Components(ps[i]), 1, n) : n \in 1..Len(Components(ps[i]))} :
              i \in 1..Len(ps)}

Parents(t, n) == {<<m, k>> \in (1..Len(t)) \X UNION {DOMAIN t[m] : m \in 1..Len(t)} :
                     k \in DOMAIN t[m] /\ t[m][k] = n}

\* C6: the nodes of the tree below the root are in one-to-one correspondence
\* with the distinct non-empty component prefixes of the inserted paths, and
\* each of them has exactly one parent
C6_SharedPrefix ==
    pc \in TreePcs =>
        /\ Len(tree) = 1 + Cardinality(ComponentPrefixes(Inserted))
        /\ PathsFrom(tree, RootNode) = {<<>>} \cup ComponentPrefixes(Inserted)
        /\ Parents(tree, RootNode) = {}
        /\ \A n \in 2..Len(tree) : Cardinality(Parents(tree, n)) = 1

C6_Witness ==
    /\ Built
    /\ Len(paths) >= 2
    /\ \E k \in DOMAIN tree[RootNode] :
          /\ Cardinality(DOMAIN tree[tree[RootNode][k]]) = 2
          /\ Cardinality({i \in 1..Len(paths) :
                            Len(Components(paths[i])) = 2
                              /\ Components(paths[i])[1] = k}) = 2

\* ---------------------------------------------------- reading the output
\* the position of a line's connector, 0 for a line without one
ConnPos(line) ==
    IF \E i \in 1..Len(line) : line[i] \in {ELBOW, TEE}
      THEN CHOOSE i \in 1..Len(line) :
             /\ line[i] \in {ELBOW, TEE}
             /\ \A j \in 1..(i - 1) : line[j] \notin {ELBOW, TEE}
      ELSE 0
LineDepth(line) == IF ConnPos(line) = 0 THEN 0 ELSE (ConnPos(line) - 1) \div 4 + 1
LineName(line) == SubSeq(line, ConnPos(line) + 4, Len(line))
LinePrefix(line) == SubSeq(line, 1, ConnPos(line) - 1)
LineConnector(line) == SubSeq(line, ConnPos(line), ConnPos(line) + 3)

\* the nearest earlier line of smaller depth, 0 when there is none
ParentIdx(out, i) ==
    LET S == {j \in 1..(i - 1) : LineDepth(out[j]) < LineDepth(out[i])}
    IN IF S = {} THEN 0 ELSE CHOOSE j \in S : \A k \in S : k <= j

RECURSIVE LinePath(_, _)
LinePath(out, i) ==
    IF i = 0 \/ LineDepth(out[i]) = 0 THEN <<>>
    ELSE Append(LinePath(out, ParentIdx(out, i)), LineName(out[i]))

Rendered == pc = "tree_done" /\ paths # <<>>

\* C7: of two rendered lines with the same parent line the earlier has the
\* lexicographically smaller name
C7_SiblingsSorted ==
    Rendered =>
        \A i, j \in 2..Len(stdout) :
            (i < j /\ ParentIdx(stdout, i) = ParentIdx(stdout, j))
                => LexLess(LineName(stdout[i]), LineName(stdout[j]))

C7_Witness ==
    /\ Rendered
    /\ Len(paths) = 3
    /\ \A i \in 1..3 : Len(Components(paths[i])) = 1
    /\ LexLess(Components(paths[2])[1], Components(paths[1])[1])
    /\ LexLess(Components(paths[1])[1], Components(paths[3])[1])
    /\ Len(stdout) = 4

\* the node a key path leads to, 0 when there is none
RECURSIVE NodeAt(_, _, _)
NodeAt(t, node, kp) ==
    IF kp = <<>> THEN node
    ELSE IF Head(kp) \in DOMAIN t[node]
           THEN NodeAt(t, t[node][Head(kp)], Tail(kp))
           ELSE 0

\* the node at key path kp is the last child of its parent
IsLastChild(t, kp) ==
    LET parent == NodeAt(t, RootNode, SubSeq(kp, 1, Len(kp) - 1))
    IN \A k \in DOMAIN t[parent] : k = kp[Len(kp)] \/ LexLess(k, kp[Len(kp)])

RECURSIVE AncestorPrefix(_, _, _)
AncestorPrefix(t, kp, n) ==
    IF n = 0 THEN <<>>
    ELSE AncestorPrefix(t, kp, n - 1)
           \o (IF IsLastChild(t, SubSeq(kp, 1, n))
                 THEN <<" ", " ", " ", " ">> ELSE <<BAR, " ", " ", " ">>)

\* C8: every rendered node line is prefix, connector, name: the connector is
\* the elbow for a last child and the tee otherwise, the prefix has four
\* spaces for each proper ancestor that is a last child and a bar and three
\* spaces for each that is not, from the top level down
C8_ConnectorPrefix ==
    Rendered =>
        \A i \in 2..Len(stdout) :
            LET kp == LinePath(stdout, i) IN
            /\ NodeAt(tree, RootNode, kp) # 0
            /\ LinePrefix(stdout[i]) = AncestorPrefix(tree, kp, Len(kp) - 1)
            /\ LineConnector(stdout[i]) =
                 (IF IsLastChild(tree, kp) THEN <<ELBOW, DASH, DASH, " ">>
                                           ELSE <<TEE, DASH, DASH, " ">>)
            /\ stdout[i] = LinePrefix(stdout[i]) \o LineConnector(stdout[i])
                             \o kp[Len(kp)]

C8_Witness ==
    /\ Rendered
    /\ \E i \in 2..Len(stdout) :
          /\ LineDepth(stdout[i]) = 3
          /\ LinePrefix(stdout[i]) = <<BAR, " ", " ", " ", " ", " ", " ", " ">>

\* C9: the output starts with the root marker, then has exactly one line for
\* each node below the root, every line after its parent's line; for an
\* empty path collection it is the root marker alone
C9_LineCount ==
    pc = "tree_done" =>
        /\ stdout[1] = RootMarker
        /\ Len(stdout) = Cardinality(PathsFrom(tree, RootNode))
        /\ {LinePath(stdout, i) : i \in 2..Len(stdout)}
             = PathsFrom(tree, RootNode) \ {<<>>}
        /\ \A i \in 2..Len(stdout) :
              /\ ParentIdx(stdout, i) # 0
              /\ LineDepth(stdout[ParentIdx(stdout, i)]) = LineDepth(stdout[i]) - 1
        /\ paths = <<>> => stdout = <<RootMarker>>

C9_Witness ==
    /\ pc = "tree_done"
    /\ Len(stdout) >= 5
    /\ \E i \in 2..Len(stdout) : LineDepth(stdout[i]) = 3

\* ============================================================ list and tree
\* C10: list and tree print nothing before every record is collected, so a
\* failing record leaves the output empty; a successful list prints the
\* collected paths, one a line, in the provider's order
C10_AllOrNothing ==
    /\ pc \in {"list_open", "list_collect", "list_print",
               "tree_open", "tree_collect", "tree_display", "tree_build"}
          => stdout = <<>>
    /\ pc = "list_done"
          => /\ result = "Ok"
             /\ Len(stdout) = Len(paths)
             /\ \A i \in 1..Len(paths) : stdout[i] = paths[i]

C10_Witness ==
    /\ result = "ProviderError"
    /\ pc \in {"list_collect", "tree_collect"}
    /\ Len(paths) >= 2
====
